---- MODULE Spec2Model ----
(***************************************************************************)
(* PicShrink: the batch scheduling state machine of src/App.tsx.           *)
(*                                                                         *)
(* The React component App keeps the Job collection (batchItems), the      *)
(* settings, the tool and the application state.  Event handlers update    *)
(* that state; the two passive effects of the component (the Process Queue *)
(* Effect and the debounced re-arm effect) run after the render that       *)
(* follows an update of their dependencies.  React renders and flushes the *)
(* effects of an update before it dispatches the next event or timer       *)
(* callback, so while an effect run is due no other step is taken.         *)
(***************************************************************************)
EXTENDS Integers, Sequences, FiniteSets, TLC

\* ------------------------------------------------------------ bounds ----
MaxFiles   == 2      \* files handed over by one intake
MaxIds     == 2      \* Job ids ever drawn (bounds the number of intakes)
MaxHandles == 1      \* object URLs ever created (bounds the successes)
TickMs     == 300    \* granularity of the clock, in ms
MaxBurst   == 2      \* cap of the count of superseded timers

\* --------------------------------------------------- program constants --
DebounceMs == 600    \* setTimeout(..., 600) of the re-arm effect

Tools     == {"compress", "md5"}
SizesKB   == {100, 250}

NoResult   == [none |-> TRUE]      \* result: null
NoError    == "undefined"          \* error?: string, absent
NoTimer    == [left |-> -1, nonEmpty |-> FALSE, restarts |-> 0]
NoSettings == [tool |-> "none", maxSizeKB |-> 0]
NoPx       == [kind |-> "none"]    \* no single call is under study

VARIABLES
  activeTool,   \* useState<ToolType>
  appState,     \* useState<AppState>
  batchItems,   \* useState<BatchItem[]>
  settings,     \* useState<ProcessingSettings>
  itemsDirty,   \* setBatchItems was called since the Process Queue Effect ran
  sigDirty,     \* settingsSignature changed since the effects ran
  timer,        \* the re-arm effect's pending setTimeout, with its closure
  sinceChange,  \* ms elapsed since the re-arm effect last ran (capped)
  tasks,        \* processItemTask closures scheduled or running
  nextId,       \* next fresh Job id
  handles,      \* handles[u] = number of revokeObjectURL calls on URL u
  px            \* the processImage call under study: its inputs and progress

vars == <<activeTool, appState, batchItems, settings, itemsDirty, sigDirty,
          timer, sinceChange, tasks, nextId, handles, px>>

\* ----------------------------------------------------------- helpers ----
Min(a, b) == IF a < b THEN a ELSE b
Max(a, b) == IF a > b THEN a ELSE b

\* const settingsSignature = JSON.stringify(settings)
settingsSignature(s) == <<"tool", s.tool, "maxSizeKB", s.maxSizeKB>>

RECURSIVE FilterStatus(_, _)
\* batchItems.filter(item => item.status === st)
FilterStatus(items, st) ==
  IF items = <<>> THEN <<>>
  ELSE IF Head(items).status = st
       THEN <<Head(items)>> \o FilterStatus(Tail(items), st)
       ELSE FilterStatus(Tail(items), st)

RECURSIVE Reverse(_)
Reverse(q) == IF q = <<>> THEN <<>> ELSE Append(Reverse(Tail(q)), Head(q))

pendingItems_reversed(items) == Reverse(FilterStatus(items, "pending"))

\* const pendingItems = batchItems.filter(item => item.status === 'pending')
pendingItems(items) == FilterStatus(items, "pending")

\* prev.map(i => i.id === id ? { ...i, status: 'processing' } : i)
MarkProcessing(items, id) ==
  [k \in 1..Len(items) |->
     IF items[k].id = id THEN [items[k] EXCEPT !.status = "processing"]
     ELSE items[k]]

WriteCompleted_first(items, id, result) ==
  [k \in 1..Len(items) |->
     IF k = 1
     THEN [items[k] EXCEPT !.status = "completed", !.result = result]
     ELSE items[k]]

\* prev.map(i => i.id === id ? { ...i, status: 'completed', result } : i)
WriteCompleted(items, id, result) ==
  [k \in 1..Len(items) |->
     IF items[k].id = id
     THEN [items[k] EXCEPT !.status = "completed", !.result = result]
     ELSE items[k]]

WriteError_all(items, id) ==
  [k \in 1..Len(items) |->
     [items[k] EXCEPT !.status = "error", !.error = "Failed"]]

\* prev.map(i => i.id === id ? { ...i, status: 'error', error: 'Failed' } : i)
WriteError(items, id) ==
  [k \in 1..Len(items) |->
     IF items[k].id = id
     THEN [items[k] EXCEPT !.status = "error", !.error = "Failed"]
     ELSE items[k]]

IsFinished_alsoProcessing(item) ==
  item.status \in {"completed", "error", "processing"}

\* the re-arm test: item.status === 'completed' || item.status === 'error'
IsFinished(item) == item.status \in {"completed", "error"}

RearmItems_keepResult(items) ==
  [k \in 1..Len(items) |->
     IF IsFinished(items[k])
     THEN [items[k] EXCEPT !.status = "pending"]
     ELSE items[k]]

RearmItems_completedOnly(items) ==
  [k \in 1..Len(items) |->
     IF items[k].status = "completed"
     THEN [items[k] EXCEPT !.status = "pending", !.result = NoResult]
     ELSE items[k]]

\* prev.map(item => finished ? { ...item, status: 'pending', result: null } : item)
RearmItems(items) ==
  [k \in 1..Len(items) |->
     IF IsFinished(items[k])
     THEN [items[k] EXCEPT !.status = "pending", !.result = NoResult]
     ELSE items[k]]

\* if (i.result?.previewUrl): the URLs held by the items selected by sel
HeldUrls(items, sel) ==
  {items[k].result.previewUrl :
     k \in {j \in 1..Len(items) : items[j].result # NoResult /\ sel[j]}}

\* URL.revokeObjectURL(u) for every u of us
Revoke(h, us) == [u \in 1..Len(h) |-> IF u \in us THEN h[u] + 1 ELSE h[u]]

AllOf(items) == [k \in 1..Len(items) |-> TRUE]

\* files.map(f => ({ id: random, originalFile: f, status: 'pending', result: null }))
newItems(n, first) ==
  [k \in 1..n |-> [id |-> first + k - 1, originalFile |-> k,
                   status |-> "pending", result |-> NoResult,
                   error |-> NoError]]

\* processImage(file, settings): the output file is a function of both
processImage(file, s) == [src |-> file, under |-> s]

SettingsRead_current(closure, current) == current

\* the `settings` that processItemTask reads at line 60 is the one closed
\* over by the effect run that created the task, not the current state
SettingsRead(closure, current) == closure

RearmTimer_noRestart(old, items) ==
  [left |-> IF old = NoTimer THEN DebounceMs ELSE old.left,
   nonEmpty |-> Len(items) > 0,
   restarts |-> IF old = NoTimer THEN 0 ELSE Min(old.restarts + 1, MaxBurst)]

\* the timer the re-arm effect leaves behind: cleanup clears the old one,
\* then setTimeout(..., 600) with batchItems of this render in its closure
\* (restarts counts the pending timers that clearTimeout cancelled in a row)
RearmTimer(old, items) ==
  [left |-> DebounceMs, nonEmpty |-> Len(items) > 0,
   restarts |-> IF old = NoTimer THEN 0 ELSE Min(old.restarts + 1, MaxBurst)]

Dirty == itemsDirty \/ sigDirty

\* -------------------------------------------------------------- Init ----
InitSettings == [tool |-> "compress", maxSizeKB |-> 250]

Init ==
  /\ activeTool = "compress"
  /\ appState = "IDLE"
  /\ batchItems = <<>>
  /\ settings = InitSettings
  /\ itemsDirty = FALSE
  /\ sigDirty = FALSE
  /\ timer = RearmTimer(NoTimer, <<>>)   \* the effects ran once on mount
  /\ sinceChange = 0
  /\ tasks = {}
  /\ nextId = 1
  /\ handles = <<>>
  /\ px = NoPx

\* ----------------------------------------------------------- actions ----
\* handleFilesSelect(files); FileUploader is rendered only for an empty batch
handleFilesSelect(n) ==
  /\ ~Dirty
  /\ Len(batchItems) = 0
  /\ handles' = Revoke(handles, HeldUrls(batchItems, AllOf(batchItems)))
  /\ batchItems' = newItems(n, nextId)
  /\ nextId' = nextId + n
  /\ appState' = "PROCESSING"
  /\ itemsDirty' = TRUE
  /\ UNCHANGED <<px, activeTool, settings, sigDirty, timer, sinceChange, tasks>>

\* handleReset(); the button lives in BatchResultView (non-empty batch)
handleReset ==
  /\ ~Dirty
  /\ Len(batchItems) > 0
  /\ handles' = Revoke(handles, HeldUrls(batchItems, AllOf(batchItems)))
  /\ batchItems' = <<>>
  /\ appState' = "IDLE"
  /\ itemsDirty' = TRUE
  /\ UNCHANGED <<px, activeTool, settings, sigDirty, timer, sinceChange, tasks,
                 nextId>>

handleToolChange_noReset(tool) ==
  /\ ~Dirty
  /\ activeTool' = tool
  /\ settings' = [settings EXCEPT !.tool = tool]
  /\ sigDirty' = (settingsSignature(settings') # settingsSignature(settings))
  /\ UNCHANGED <<px, handles, batchItems, appState, itemsDirty, timer,
                 sinceChange, tasks, nextId>>

\* handleToolChange(tool): setActiveTool, setSettings, handleReset
handleToolChange(tool) ==
  /\ ~Dirty
  /\ activeTool' = tool
  /\ settings' = [settings EXCEPT !.tool = tool]
  /\ sigDirty' = (settingsSignature(settings') # settingsSignature(settings))
  /\ handles' = Revoke(handles, HeldUrls(batchItems, AllOf(batchItems)))
  /\ batchItems' = <<>>
  /\ appState' = "IDLE"
  /\ itemsDirty' = TRUE
  /\ UNCHANGED <<px, timer, sinceChange, tasks, nextId>>

\* ControlPanel: setSettings({ ...settings, maxSizeKB: kb }); the panel is
\* rendered only for a non-empty batch
ChangeSettings(kb) ==
  /\ ~Dirty
  /\ Len(batchItems) > 0
  /\ settings' = [settings EXCEPT !.maxSizeKB = kb]
  /\ sigDirty' = (settingsSignature(settings') # settingsSignature(settings))
  /\ UNCHANGED <<px, activeTool, appState, batchItems, itemsDirty, timer,
                 sinceChange, tasks, nextId, handles>>

\* The render that follows an update, with the passive effects whose
\* dependencies changed: the Process Queue Effect ([batchItems,
\* settingsSignature]) and the re-arm effect ([settingsSignature]).
RunEffects ==
  /\ Dirty
  /\ LET pend == pendingItems(batchItems)
         itemToProcess == Head(pend)
     IN  IF Len(batchItems) = 0
         THEN /\ itemsDirty' = FALSE
              /\ UNCHANGED <<appState, batchItems, tasks>>
         ELSE IF Len(pend) = 0
         THEN /\ appState' = IF \E k \in 1..Len(batchItems) :
                                    batchItems[k].status = "processing"
                             THEN "PROCESSING" ELSE "COMPLETED"
              /\ itemsDirty' = FALSE
              /\ UNCHANGED <<batchItems, tasks>>
         ELSE /\ appState' = "PROCESSING"
              /\ batchItems' = MarkProcessing(batchItems, itemToProcess.id)
              /\ tasks' = tasks \cup
                   {[id |-> itemToProcess.id,
                     file |-> itemToProcess.originalFile,
                     closure |-> settings,
                     phase |-> "delay",
                     used |-> NoSettings]}
              /\ itemsDirty' = TRUE
  /\ IF sigDirty
     THEN /\ timer' = RearmTimer(timer, batchItems)
          /\ sinceChange' = 0
     ELSE UNCHANGED <<timer, sinceChange>>
  /\ sigDirty' = FALSE
  /\ UNCHANGED <<px, activeTool, settings, nextId, handles>>

\* the callback of the re-arm effect's setTimeout
TimerFire ==
  /\ ~Dirty
  /\ timer # NoTimer
  /\ timer.left = 0
  /\ timer' = NoTimer
  /\ IF timer.nonEmpty
     THEN /\ handles' = Revoke(handles,
                 HeldUrls(batchItems,
                          [k \in 1..Len(batchItems) |-> IsFinished(batchItems[k])]))
          /\ batchItems' = RearmItems(batchItems)
          /\ itemsDirty' = TRUE
     ELSE UNCHANGED <<handles, batchItems, itemsDirty>>
  /\ UNCHANGED <<px, activeTool, appState, settings, sigDirty, sinceChange, tasks,
                 nextId>>

\* time passes while the re-arm timer is pending
Tick ==
  /\ ~Dirty
  /\ timer # NoTimer
  /\ timer.left > 0
  /\ timer' = [timer EXCEPT !.left = Max(timer.left - TickMs, 0)]
  /\ sinceChange' = Min(sinceChange + TickMs, DebounceMs)
  /\ UNCHANGED <<px, activeTool, appState, batchItems, settings, itemsDirty,
                 sigDirty, tasks, nextId, handles>>

\* setTimeout(processItemTask, 50) fires: processImage(file, settings) starts
TaskStart(t) ==
  /\ ~Dirty
  /\ t.phase = "delay"
  /\ tasks' = (tasks \ {t}) \cup
       {[t EXCEPT !.phase = "running",
                  !.used = SettingsRead(t.closure, settings)]}
  /\ UNCHANGED <<px, activeTool, appState, batchItems, settings, itemsDirty,
                 sigDirty, timer, sinceChange, nextId, handles>>

\* const result: CompressedResult = { file, previewUrl, ..., width: 0, height: 0 }
MakeResult(processedFile, previewUrl) ==
  [file |-> processedFile, previewUrl |-> previewUrl, width |-> 0, height |-> 0]

\* processImage resolved: createObjectURL, then the completed write
TaskSucceed(t) ==
  /\ ~Dirty
  /\ t.phase = "running"
  /\ handles' = Append(handles, 0)
  /\ batchItems' = WriteCompleted(batchItems, t.id,
                      MakeResult(processImage(t.file, t.used),
                                 Len(handles) + 1))
  /\ tasks' = tasks \ {t}
  /\ itemsDirty' = TRUE
  /\ UNCHANGED <<px, activeTool, appState, settings, sigDirty, timer, sinceChange,
                 nextId>>

\* processImage rejected: the catch branch
TaskFail(t) ==
  /\ ~Dirty
  /\ t.phase = "running"
  /\ batchItems' = WriteError(batchItems, t.id)
  /\ tasks' = tasks \ {t}
  /\ itemsDirty' = TRUE
  /\ UNCHANGED <<px, activeTool, appState, settings, sigDirty, timer, sinceChange,
                 nextId, handles>>

\* the model's caps on the ids drawn and on the object URLs created
Intake(n) == nextId + n - 1 <= MaxIds /\ handleFilesSelect(n)
Succeed(t) == Len(handles) < MaxHandles /\ TaskSucceed(t)

Next ==
  \/ \E n \in 1..MaxFiles : Intake(n)
  \/ handleReset
  \/ \E tool \in Tools : handleToolChange(tool)
  \/ \E kb \in SizesKB : ChangeSettings(kb)
  \/ RunEffects
  \/ TimerFire
  \/ Tick
  \/ \E t \in tasks : TaskStart(t)
  \/ \E t \in tasks : Succeed(t)
  \/ \E t \in tasks : TaskFail(t)

Spec == Init /\ [][Next]_vars

\* ---------------------------------------------------------- fairness ----
\* every step of the task started for Job id
TaskStepOf(id) ==
  \E t \in tasks :
     t.id = id /\ (TaskStart(t) \/ Succeed(t) \/ TaskFail(t))

\* the steps of a session in which the batch is kept: no reset and no tool
\* change, whatever else the user does
BatchNext ==
  \/ \E n \in 1..MaxFiles : Intake(n)
  \/ \E kb \in SizesKB : ChangeSettings(kb)
  \/ RunEffects
  \/ TimerFire
  \/ Tick
  \/ \E t \in tasks : TaskStart(t)
  \/ \E t \in tasks : Succeed(t)
  \/ \E t \in tasks : TaskFail(t)

\* React runs due effects, timers fire, time passes, and every started
\* processItemTask is eventually resumed by the event loop
FairSpec ==
  /\ Init /\ [][BatchNext]_vars
  /\ WF_vars(RunEffects)
  /\ WF_vars(Tick)
  /\ WF_vars(TimerFire)
  /\ \A id \in 1..MaxIds : SF_vars(TaskStepOf(id))

\* ------------------------------------------------- derived predicates ---
Idx == 1..Len(batchItems)

\* the status of Job id in the collection, "absent" when it is not there
StatusOf(id) ==
  IF \E k \in Idx : batchItems[k].id = id
  THEN batchItems[CHOOSE k \in Idx : batchItems[k].id = id].status
  ELSE "absent"

\* the step in which the re-arm timer's callback runs
FireStep == timer # NoTimer /\ timer' = NoTimer

\* the step in which the running task t ends in the catch branch
FailStep(t) ==
  t \in tasks /\ t.phase = "running" /\ t \notin tasks' /\ handles' = handles

\* the step in which the running task t ends, either way
EndStep(t) == t \in tasks /\ t.phase = "running" /\ t \notin tasks'

\* nothing is left to happen without a further user event
Quiescent == ~Dirty /\ timer = NoTimer /\ tasks = {}

\* ----------------------------------------------------- processImage ----
\* The transform pipeline of processImage, src/types.ts lines 202-408.
\* Numbers that JavaScript keeps as fractions are kept exact here, as a
\* numerator over a stated denominator.

MaxDim == 6          \* source images of 1..MaxDim pixels a side, and 1000x500

\* Math.round(n / d) for n >= 0, d > 0: halves go up
MathRound(n, d) == (2 * n + d) \div (2 * d)

\* canvas.width = n / d: the canvas keeps the integer part
ToPixels(n, d) == n \div d

Digits == <<"0", "1", "2", "3", "4", "5", "6", "7", "8", "9">>

RECURSIVE ParseNumber(_)
\* Number(str) for a string of decimal digits; 0 stands for NaN (both falsy)
ParseNumber(str) ==
  IF str = <<>> THEN 0
  ELSE IF \E d \in 1..10 : Digits[d] = str[Len(str)]
       THEN LET d == CHOOSE d \in 1..10 : Digits[d] = str[Len(str)]
            IN  10 * ParseNumber(SubSeq(str, 1, Len(str) - 1)) + (d - 1)
       ELSE 0

\* str.split(':'): the parts before and after the first colon
SplitColon(str) ==
  IF \E k \in 1..Len(str) : str[k] = ":"
  THEN LET k == CHOOSE k \in 1..Len(str) :
                   str[k] = ":" /\ \A j \in 1..(k - 1) : str[j] # ":"
       IN  <<SubSeq(str, 1, k - 1), SubSeq(str, k + 1, Len(str))>>
  ELSE <<str, <<>>>>

Original == <<"o", "r", "i", "g", "i", "n", "a", "l">>

\* the crop ratios the control panel offers
CropRatios == {Original, <<"1", ":", "1">>, <<"1", "6", ":", "9">>,
               <<"4", ":", "3">>, <<"3", ":", "4">>, <<"9", ":", "1", "6">>}

\* targetRatio as <<numerator, denominator>>: rw / rh, or 1 when either is falsy
targetRatio(cropRatio) ==
  LET parts == SplitColon(cropRatio)
      rw == ParseNumber(parts[1])
      rh == ParseNumber(parts[2])
  IN  IF rw # 0 /\ rh # 0 THEN <<rw, rh>> ELSE <<1, 1>>

isRotated90or270(gs) == gs.tool = "rotate" /\ gs.rotateAngle \in {90, 270}

\* which of the four branches of the LOGIC BRANCHING runs
Branch(gs) ==
  IF gs.tool = "rotate" THEN "rotate"
  ELSE IF gs.tool = "crop" /\ gs.cropRatio # Original THEN "crop"
  ELSE IF gs.tool = "resize" THEN "resize"
  ELSE "default"

CropRect_topLeft(w, h, gs) ==
  LET tr == targetRatio(gs.cropRatio)
  IN  IF w * tr[2] > tr[1] * h
      THEN [den |-> 2 * tr[2], x |-> 0, y |-> 0,
            cropWidth |-> 2 * h * tr[1], cropHeight |-> 2 * tr[2] * h]
      ELSE [den |-> 2 * tr[1], x |-> 0, y |-> 0,
            cropWidth |-> 2 * tr[1] * w, cropHeight |-> 2 * w * tr[2]]

\* the crop rectangle on the source, its four numbers over the denominator den
CropRect(w, h, gs) ==
  LET tr == targetRatio(gs.cropRatio)
      tn == tr[1]
      td == tr[2]
  IN  IF w * td > tn * h       \* currentRatio > targetRatio
      THEN [den |-> 2 * td, x |-> w * td - h * tn, y |-> 0,
            cropWidth |-> 2 * h * tn, cropHeight |-> 2 * td * h]
      ELSE [den |-> 2 * tn, x |-> 0, y |-> h * tn - w * td,
            cropWidth |-> 2 * tn * w, cropHeight |-> 2 * w * td]

RECURSIVE Pow2(_)
Pow2(n) == IF n = 0 THEN 1 ELSE 2 * Pow2(n - 1)

RECURSIVE Pow2Mod100(_)
Pow2Mod100(n) == IF n = 0 THEN 1 ELSE (2 * Pow2Mod100(n - 1)) % 100

\* floor(log2(n)) for n >= 1
Log2Floor(n) == CHOOSE e \in 0..30 : Pow2(e) <= n /\ n < Pow2(e + 1)

\* the double p = resizePercentage / 100 lies in [2^-s, 2^(1-s)) for s = PctShift
PctShift(pct) ==
  IF pct >= 200 THEN -1
  ELSE CHOOSE s \in 0..7 : 100 <= pct * Pow2(s) /\ pct * Pow2(s) < 200

\* p is pct/100 rounded to 53 bits: pct * 2^(52+s) / 100 rounded to the nearest
\* integer.  PctBelow is by how many hundredths of its last bit p falls below
\* pct/100 (0 when the division is exact or rounds up).
PctBelow(pct) ==
  LET r == (pct * Pow2Mod100(52 + PctShift(pct))) % 100
  IN  IF r < 50 THEN r ELSE 0

\* Math.round(src * p) in double arithmetic.  The product differs from
\* src*pct/100 by less than 1/100 of a pixel, so the rounding can only go the
\* other way when src*pct/100 is n + 1/2: the double product is then below
\* n + 1/2, and Math.round gives n, when p is below pct/100 by more than half
\* the spacing of the doubles under n + 1/2.
RoundScaled(src, pct) ==
  LET exact == MathRound(src * pct, 100)
      n == (src * pct) \div 100
      r == PctBelow(pct)
      low == IF n = 0
             THEN src * r * 8 > 100 * Pow2(PctShift(pct))
             ELSE src * r * 2 > 100 * Pow2(PctShift(pct) + Log2Floor(n))
  IN  IF (src * pct) % 100 = 50 /\ r > 0 /\ low THEN exact - 1 ELSE exact

ResizeSize_heightFirst(w, h, gs) ==
  IF gs.resizeMode = "percentage"
  THEN <<RoundScaled(w, gs.resizePercentage),
         RoundScaled(h, gs.resizePercentage)>>
  ELSE IF gs.maintainAspectRatio
       THEN IF gs.resizeHeight > 0
            THEN <<MathRound(gs.resizeHeight * w, h), gs.resizeHeight>>
            ELSE IF gs.resizeWidth > 0
                 THEN <<gs.resizeWidth, MathRound(gs.resizeWidth * h, w)>>
                 ELSE <<w, h>>
       ELSE <<IF gs.resizeWidth > 0 THEN gs.resizeWidth ELSE w,
              IF gs.resizeHeight > 0 THEN gs.resizeHeight ELSE h>>

\* finalWidth and finalHeight of the resize branch
ResizeSize(w, h, gs) ==
  IF gs.resizeMode = "percentage"
  THEN <<RoundScaled(w, gs.resizePercentage),
         RoundScaled(h, gs.resizePercentage)>>
  ELSE IF gs.maintainAspectRatio
       THEN IF gs.resizeWidth > 0
            THEN <<gs.resizeWidth, MathRound(gs.resizeWidth * h, w)>>
            ELSE IF gs.resizeHeight > 0
                 THEN <<MathRound(gs.resizeHeight * w, h), gs.resizeHeight>>
                 ELSE <<w, h>>
       ELSE <<IF gs.resizeWidth > 0 THEN gs.resizeWidth ELSE w,
              IF gs.resizeHeight > 0 THEN gs.resizeHeight ELSE h>>

DefaultSize_anyTool(w, h, gs) ==
  IF gs.maxWidthOrHeight > 0
     /\ (w > gs.maxWidthOrHeight \/ h > gs.maxWidthOrHeight)
  THEN IF w > h
       THEN <<gs.maxWidthOrHeight, ToPixels(gs.maxWidthOrHeight * h, w)>>
       ELSE <<ToPixels(gs.maxWidthOrHeight * w, h), gs.maxWidthOrHeight>>
  ELSE <<w, h>>

\* the canvas size of the compress / convert / md5 branch
DefaultSize(w, h, gs) ==
  IF /\ gs.tool = "compress"
     /\ gs.maxWidthOrHeight > 0
     /\ (w > gs.maxWidthOrHeight \/ h > gs.maxWidthOrHeight)
  THEN IF w > h                \* ratio > 1
       THEN <<gs.maxWidthOrHeight, ToPixels(gs.maxWidthOrHeight * h, w)>>
       ELSE <<ToPixels(gs.maxWidthOrHeight * w, h), gs.maxWidthOrHeight>>
  ELSE <<w, h>>

RotateSize_noSwap(w, h, gs) == <<w, h>>

\* intermediateWidth, intermediateHeight
RotateSize(w, h, gs) == IF isRotated90or270(gs) THEN <<h, w>> ELSE <<w, h>>

\* canvas.width and canvas.height after the branch has run
CanvasSize(w, h, gs) ==
  CASE Branch(gs) = "rotate" -> RotateSize(w, h, gs)
    [] Branch(gs) = "crop" ->
         LET r == CropRect(w, h, gs)
         IN  <<ToPixels(r.cropWidth, r.den), ToPixels(r.cropHeight, r.den)>>
    [] Branch(gs) = "resize" -> ResizeSize(w, h, gs)
    [] OTHER -> DefaultSize(w, h, gs)

\* the calls the branch makes on the 2d context, in order
CanvasOps(gs) ==
  CASE Branch(gs) = "rotate" -> <<"translate", "rotate", "scale", "drawImage">>
    [] Branch(gs) \in {"crop", "resize"} -> <<"fillRect", "drawImage">>
    [] OTHER -> IF gs.tool = "md5"
                THEN <<"fillRect", "drawImage", "getImageData", "putImageData">>
                ELSE <<"fillRect", "drawImage">>

\* geometry step of processImage on a w x h source
Geometry(w, h, gs) ==
  [branch |-> Branch(gs),
   width |-> CanvasSize(w, h, gs)[1],
   height |-> CanvasSize(w, h, gs)[2],
   crop |-> IF Branch(gs) = "crop" THEN CropRect(w, h, gs) ELSE [den |-> 0],
   ops |-> CanvasOps(gs)]

\* the settings fields the geometry step reads, at rest
BaseSettings ==
  [tool |-> "compress", maxWidthOrHeight |-> 0, rotateAngle |-> 0,
   flipHorizontal |-> FALSE, flipVertical |-> FALSE, cropRatio |-> Original,
   resizeMode |-> "percentage", resizePercentage |-> 100, resizeWidth |-> 0,
   resizeHeight |-> 0, maintainAspectRatio |-> TRUE]

Percentages == {1, 29, 50, 100, 150, 200}
MaxSides    == {0, 2, 4, 800}      \* maxWidthOrHeight: 0 is "no limit"

\* the settings the control panel can produce, one tool at a time
GeomSettings ==
       {[BaseSettings EXCEPT !.tool = "rotate", !.rotateAngle = a,
                             !.flipHorizontal = fh, !.flipVertical = fv] :
          a \in {0, 90, 180, 270}, fh \in BOOLEAN, fv \in BOOLEAN}
  \cup {[BaseSettings EXCEPT !.tool = "crop", !.cropRatio = r] :
          r \in CropRatios}
  \cup {[BaseSettings EXCEPT !.tool = "resize", !.resizePercentage = pc] :
          pc \in Percentages}
  \cup {[BaseSettings EXCEPT !.tool = "resize", !.resizeMode = "dimensions",
                             !.resizeWidth = rw, !.resizeHeight = rh,
                             !.maintainAspectRatio = m] :
          rw \in 0..3, rh \in 0..3, m \in BOOLEAN}
  \cup {[BaseSettings EXCEPT !.tool = t, !.maxWidthOrHeight = mx] :
          t \in {"compress", "convert", "md5"}, mx \in MaxSides}

SourceSizes ==
  {<<w, h>> : w \in 1..MaxDim, h \in 1..MaxDim}
    \cup {<<1000, 500>>, <<50, 25>>, <<1000, 1>>}

\* the scheduler at rest, while one processImage call is studied
SchedulerIdle ==
  /\ activeTool = "compress"
  /\ appState = "IDLE"
  /\ batchItems = <<>>
  /\ settings = InitSettings
  /\ itemsDirty = FALSE
  /\ sigDirty = FALSE
  /\ timer = RearmTimer(NoTimer, <<>>)
  /\ sinceChange = 0
  /\ tasks = {}
  /\ nextId = 1
  /\ handles = <<>>

schedVars == <<activeTool, appState, batchItems, settings, itemsDirty,
               sigDirty, timer, sinceChange, tasks, nextId, handles>>

GeomInit ==
  /\ SchedulerIdle
  /\ \E sz \in SourceSizes, gs \in GeomSettings :
       px = [kind |-> "geom", w |-> sz[1], h |-> sz[2], gs |-> gs,
             phase |-> "loaded"]

\* Pipeline steps 1 and 2: the canvas is sized and drawn
DrawCanvas ==
  /\ px.kind = "geom"
  /\ px.phase = "loaded"
  /\ px' = [kind |-> "geom", w |-> px.w, h |-> px.h, gs |-> px.gs,
            phase |-> "drawn", out |-> Geometry(px.w, px.h, px.gs)]
  /\ UNCHANGED schedVars

GeomSpec == GeomInit /\ [][DrawCanvas]_vars

Drawn == px.kind = "geom" /\ px.phase = "drawn"

\* ------------------------------------------------------ end to end ----
\* One intake of E2EFiles decodable files under tool 'resize' in percentage
\* mode, run by the scheduler of src/App.tsx to the end.

E2EFiles == 3

\* the settings after the tool and the percentage were chosen in the panel
E2ESettings(pct) ==
  [tool |-> "resize", maxSizeKB |-> 250, maxWidthOrHeight |-> 0,
   rotateAngle |-> 0, flipHorizontal |-> FALSE, flipVertical |-> FALSE,
   cropRatio |-> Original, resizeMode |-> "percentage",
   resizePercentage |-> pct, resizeWidth |-> 0, resizeHeight |-> 0,
   maintainAspectRatio |-> TRUE]

\* px.dims[f] is the size of the image decoded from file f
E2EInit ==
  /\ activeTool = "resize"
  /\ appState = "IDLE"
  /\ batchItems = <<>>
  /\ \E pct \in Percentages : settings = E2ESettings(pct)
  /\ itemsDirty = FALSE
  /\ sigDirty = FALSE
  /\ timer = RearmTimer(NoTimer, <<>>)
  /\ sinceChange = 0
  /\ tasks = {}
  /\ nextId = 1
  /\ handles = <<>>
  /\ \E sz \in SourceSizes :
       px = [kind |-> "e2e",
             dims |-> [f \in 1..E2EFiles |->
                         CASE f = 1 -> sz
                           [] f = 2 -> <<3, 5>>
                           [] OTHER -> <<1000, 500>>]]

\* the output surface of processImage(file, s)
SurfaceOf(file, s) == Geometry(px.dims[file][1], px.dims[file][2], s)

\* canvas.toBlob yields null for a canvas without pixels, and processImage
\* then throws 'Processing failed'
Encodable(file, s) ==
  SurfaceOf(file, s).width > 0 /\ SurfaceOf(file, s).height > 0

E2EIntake == px.kind = "e2e" /\ handleFilesSelect(E2EFiles)
E2ESucceed(t) == Encodable(t.file, t.used) /\ TaskSucceed(t)
E2EFail(t) == ~Encodable(t.file, t.used) /\ TaskFail(t)

E2ENext ==
  \/ E2EIntake
  \/ RunEffects
  \/ TimerFire
  \/ Tick
  \/ \E t \in tasks : TaskStart(t)
  \/ \E t \in tasks : E2ESucceed(t)
  \/ \E t \in tasks : E2EFail(t)

\* the browser runs every render, timer callback and promise continuation
\* that is due, and the user does hand the files over
E2ESpec == E2EInit /\ [][E2ENext]_vars /\ WF_vars(E2ENext)

\* ----------------------------------------------------------- export ----
\* The EXPORT step of processImage, src/types.ts lines 352-387.  A quality q
\* is kept as the integer q * QUnit, so that every quality the search can
\* reach (0.1 + 0.9 * j / 32), 0.5 and 0.92 are whole numbers.  The gaps the
\* search sees (0.45, 0.225, ..., 0.028125) are far from 0.05, so the double
\* comparison at line 377 decides as the exact one does.

QUnit   == 1600
MinQ0   == 160       \* minQ = 0.1
MaxQ0_half == QUnit \div 2
MaxQ0   == 1600      \* maxQ = 1.0
QGap_wide == QUnit \div 4
QGap_tiny == QUnit \div QUnit
QGap    == 80        \* 0.05
QFixed  == 800       \* 0.5
QHigh   == 1472      \* 0.92
MaxIter == 10

NoBlob == [none |-> TRUE]

Abs(x) == IF x < 0 THEN 0 - x ELSE x

\* the encoders under study: the byte size of canvas.toBlob's result as a
\* function of the quality.  "linear" is non-decreasing in the quality, "vee"
\* is smallest at 0.5, "none" stands for a canvas toBlob yields null for.
Encoders ==
       {[kind |-> "linear", base |-> b, slope |-> sl] :
          b \in {0, 50000, 300000}, sl \in {0, 100000, 1000000}}
  \cup {[kind |-> "vee", base |-> b, slope |-> 400000] : b \in {50000, 200000}}
  \cup {[kind |-> "none", base |-> 0, slope |-> 0]}

EncodedSize(enc, q) ==
  IF enc.kind = "linear" THEN enc.base + (enc.slope * q) \div QUnit
  ELSE enc.base + (enc.slope * Abs(q - QFixed)) \div QUnit

\* await toBlob(q, type)
toBlob(enc, q, type) ==
  IF enc.kind = "none" THEN NoBlob
  ELSE [size |-> EncodedSize(enc, q), q |-> q, type |-> type]

Formats == {"image/jpeg", "image/png", "image/webp"}
ExportTools == {"compress", "convert", "md5", "resize", "crop", "rotate"}

SearchInit ==
  /\ SchedulerIdle
  /\ \E enc \in Encoders, kb \in SizesKB, tool \in ExportTools, f \in Formats :
       px = [kind |-> "search", enc |-> enc, tool |-> tool, format |-> f,
             targetBytes |-> kb * 1024, pc |-> "export",
             minQ |-> MinQ0, maxQ |-> MaxQ0, iter |-> 0,
             probes |-> <<>>, outputBlob |-> NoBlob,
             encoded |-> <<>>, exit |-> "none"]

\* lines 360-366 and 382-385: the branch on tool and format
ExportStart ==
  /\ px.kind = "search" /\ px.pc = "export"
  /\ px' = IF px.tool = "compress"
           THEN IF px.format = "image/png"
                THEN [px EXCEPT !.outputBlob = toBlob(px.enc, MaxQ0, px.format),
                                !.encoded = Append(@, MaxQ0),
                                !.pc = "check"]
                ELSE [px EXCEPT !.pc = "loop"]
           ELSE [px EXCEPT !.outputBlob = toBlob(px.enc, QHigh, px.format),
                           !.encoded = Append(@, QHigh),
                           !.pc = "check"]
  /\ UNCHANGED schedVars

\* lines 367-379: the loop test and one pass of the loop body
Probe ==
  /\ px.kind = "search" /\ px.pc = "loop"
  /\ LET currQ == (px.minQ + px.maxQ) \div 2
         blob == toBlob(px.enc, currQ, px.format)
         fits == blob.size <= px.targetBytes
         minQ1 == IF fits THEN currQ ELSE px.minQ
         maxQ1 == IF fits THEN px.maxQ ELSE currQ
     IN  px' = IF px.iter >= MaxIter
               THEN [px EXCEPT !.exit = "cap", !.pc = "fallback"]
               ELSE IF blob = NoBlob
               THEN [px EXCEPT !.probes = Append(@, currQ),
                               !.encoded = Append(@, currQ),
                               !.exit = "null", !.pc = "fallback"]
               ELSE [px EXCEPT
                       !.probes = Append(@, currQ),
                       !.encoded = Append(@, currQ),
                       !.exit = IF maxQ1 - minQ1 < QGap THEN "gap" ELSE @,
                       !.outputBlob = IF fits THEN blob ELSE @,
                       !.minQ = minQ1,
                       !.maxQ = maxQ1,
                       !.iter = IF maxQ1 - minQ1 < QGap THEN @ ELSE @ + 1,
                       !.pc = IF maxQ1 - minQ1 < QGap THEN "fallback" ELSE "loop"]
  /\ UNCHANGED schedVars

FallbackBlob_none(enc, type) == NoBlob

\* await toBlob(0.5, targetFormat)
FallbackBlob(enc, type) == toBlob(enc, QFixed, type)

\* line 380: if (!outputBlob) outputBlob = await toBlob(0.5, targetFormat)
Fallback ==
  /\ px.kind = "search" /\ px.pc = "fallback"
  /\ px' = [px EXCEPT
              !.outputBlob = IF @ = NoBlob THEN FallbackBlob(px.enc, px.format)
                             ELSE @,
              !.encoded = IF px.outputBlob = NoBlob THEN Append(@, QFixed)
                          ELSE @,
              !.pc = "check"]
  /\ UNCHANGED schedVars

\* line 387: if (!outputBlob) throw new Error('Processing failed')
ExportCheck ==
  /\ px.kind = "search" /\ px.pc = "check"
  /\ px' = [px EXCEPT !.pc = IF px.outputBlob = NoBlob THEN "thrown" ELSE "done"]
  /\ UNCHANGED schedVars

SearchNext == ExportStart \/ Probe \/ Fallback \/ ExportCheck

SearchSpec == SearchInit /\ [][SearchNext]_vars

\* the size-target search ran: tool 'compress' with a lossy format
Searched ==
  /\ px.kind = "search" /\ px.tool = "compress" /\ px.format # "image/png"
  /\ px.pc \in {"done", "thrown"}

\* ------------------------------------------------------- file naming ----
\* The output file name, src/types.ts lines 389-407.  A file name is the
\* sequence of its characters; the output name is the kept characters
\* followed by the suffix, the dot and the extension.

MaxNameLen == 4

NameChars == {"a", "."}

RECURSIVE SeqsUpTo(_, _)
\* the sequences over S of length 1..n
SeqsUpTo(S, n) ==
  IF n = 0 THEN {}
  ELSE {<<c>> : c \in S}
         \cup {Append(q, c) : q \in SeqsUpTo(S, n - 1), c \in S}

\* str.lastIndexOf(c): 0-based, -1 when c does not occur
lastIndexOf(str, c) ==
  IF \E k \in 1..Len(str) : str[k] = c
  THEN (CHOOSE k \in 1..Len(str) :
          str[k] = c /\ \A j \in (k + 1)..Len(str) : str[j] # c) - 1
  ELSE -1

\* str.substring(start, end): arguments below 0 count as 0, above the length
\* as the length, and are swapped when start > end
substring(str, start, end) ==
  LET a == Max(0, Min(start, Len(str)))
      b == Max(0, Min(end, Len(str)))
  IN  SubSeq(str, Min(a, b) + 1, Max(a, b))

\* ext: 'jpg' unless the blob is png or webp
ExtOf(type) ==
  IF type = "image/webp" THEN "webp"
  ELSE IF type = "image/png" THEN "png"
  ELSE "jpg"

\* suffixMap[settings.tool] || '_new'
SuffixOf(tool) ==
  CASE tool = "compress" -> "_min"
    [] tool = "convert" -> "_new"
    [] tool = "md5" -> "_safe"
    [] tool = "resize" -> "_resized"
    [] tool = "crop" -> "_cropped"
    [] tool = "rotate" -> "_rotated"
    [] OTHER -> "_new"

\* `${originalName}${suffix}.${ext}`
OutputName(name, tool, type) ==
  substring(name, 0, lastIndexOf(name, ".")) \o <<SuffixOf(tool), ".", ExtOf(type)>>

NameInit ==
  /\ SchedulerIdle
  /\ \E name \in SeqsUpTo(NameChars, MaxNameLen), tool \in ExportTools,
        type \in Formats :
       px = [kind |-> "name", name |-> name, tool |-> tool, type |-> type,
             phase |-> "encoded"]

\* return new File([outputBlob], name, ...)
BuildFile ==
  /\ px.kind = "name" /\ px.phase = "encoded"
  /\ px' = [kind |-> "name", name |-> px.name, tool |-> px.tool,
            type |-> px.type, phase |-> "named",
            out |-> OutputName(px.name, px.tool, px.type)]
  /\ UNCHANGED schedVars

NameSpec == NameInit /\ [][BuildFile]_vars

\* ------------------------------------------------------------ pixels ----
\* What the drawing calls of processImage do to the pixels, for the branches
\* that draw the source at its own scale: the rotate branch (lines 237-250)
\* and the default branch without downscale (lines 320-349).  An image is
\* [w, h, at], at[<<x, y>>] being the <<r, g, b, a>> of the pixel in column x
\* and row y.  The output file is taken to decode to the canvas it was
\* encoded from.

MaxPix  == 3         \* images of 1..MaxPix pixels a side
MaxRuns == 2         \* processImage is applied to its own output up to here

Transparent == <<0, 0, 0, 0>>

Positions(w, h) == {<<x, y>> : x \in 0..(w - 1), y \in 0..(h - 1)}

\* an opaque w x h image whose pixels all differ in the first channel
TestImage(w, h, base) ==
  [w |-> w, h |-> h,
   at |-> [p \in Positions(w, h) |->
             <<(base + p[2] * w + p[1]) % 256, 0, 0, 255>>]]

\* ctx.rotate(angle * PI / 180) on a point, y pointing down
Rotated(pt, angle) ==
  CASE angle = 90 -> <<0 - pt[2], pt[1]>>
    [] angle = 180 -> <<0 - pt[1], 0 - pt[2]>>
    [] angle = 270 -> <<pt[2], 0 - pt[1]>>
    [] OTHER -> pt

DrawOffset2_shifted(side) == 2 - side

\* twice the offset -srcWidth / 2 (-srcHeight / 2) of drawImage
DrawOffset2(side) == 0 - side

\* Where the rotate branch puts source pixel q of a w x h image on the W x H
\* canvas.  Coordinates are doubled, so that pixel centres and canvas.width / 2
\* are whole: the centre of q in user space, then scale, rotate, translate.
Place(q, w, h, W, H, gs) ==
  LET c == <<2 * q[1] + 1 + DrawOffset2(w), 2 * q[2] + 1 + DrawOffset2(h)>>
      sc == <<IF gs.flipHorizontal THEN 0 - c[1] ELSE c[1],
              IF gs.flipVertical THEN 0 - c[2] ELSE c[2]>>
      r == Rotated(sc, gs.rotateAngle)
  IN  <<(r[1] + W - 1) \div 2, (r[2] + H - 1) \div 2>>

\* the canvas after the branch has drawn the image (before the MD5 tweak);
\* the rotate branch does not fill, pixels it does not cover stay transparent
DrawnCanvas(img, gs) ==
  LET size == CanvasSize(img.w, img.h, gs)
  IN  [w |-> size[1], h |-> size[2],
       at |-> [p \in Positions(size[1], size[2]) |->
                 IF Branch(gs) = "rotate"
                 THEN IF \E q \in Positions(img.w, img.h) :
                            Place(q, img.w, img.h, size[1], size[2], gs) = p
                      THEN img.at[CHOOSE q \in Positions(img.w, img.h) :
                                    Place(q, img.w, img.h, size[1], size[2], gs) = p]
                      ELSE Transparent
                 ELSE img.at[p]]]

TweakPixel_wrap(data) == [data EXCEPT ![1] = (@ + 1) % 256]

\* if (data[0] < 255) data[0] += 1; else data[0] -= 1;
TweakPixel(data) == [data EXCEPT ![1] = IF @ < 255 THEN @ + 1 ELSE @ - 1]

\* MD5 Pixel Tweak: getImageData(0, 0, 1, 1), the change, putImageData
Tweaked(canvas, gs) ==
  IF Branch(gs) = "default" /\ gs.tool = "md5"
  THEN [canvas EXCEPT !.at[<<0, 0>>] = TweakPixel(@)]
  ELSE canvas

\* the settings under which the source is drawn at its own scale
PixelSettings ==
       {[BaseSettings EXCEPT !.tool = "rotate", !.rotateAngle = a,
                             !.flipHorizontal = fh, !.flipVertical = fv] :
          a \in {0, 90, 180, 270}, fh \in BOOLEAN, fv \in BOOLEAN}
  \cup {[BaseSettings EXCEPT !.tool = t] : t \in {"compress", "convert", "md5", "crop"}}

PixelInit ==
  /\ SchedulerIdle
  /\ \E w \in 1..MaxPix, h \in 1..MaxPix, base \in {0, 254, 255},
        gs \in PixelSettings :
       px = [kind |-> "pixel", gs |-> gs, runs |-> 0,
             orig |-> TestImage(w, h, base),
             drawn |-> TestImage(w, h, base),
             img |-> TestImage(w, h, base)]

\* processImage applied to the image its last run produced
ProcessPixels ==
  /\ px.kind = "pixel"
  /\ px.runs < MaxRuns
  /\ px' = [px EXCEPT !.runs = @ + 1,
                      !.drawn = DrawnCanvas(px.img, px.gs),
                      !.img = Tweaked(DrawnCanvas(px.img, px.gs), px.gs)]
  /\ UNCHANGED schedVars

PixelSpec == PixelInit /\ [][ProcessPixels]_vars

\* ------------------------------------------------------------ claims ----

\* C1: at most one Job has status 'processing' in every reachable state.
C1_SingleFlight ==
  Cardinality({k \in Idx : batchItems[k].status = "processing"}) <= 1

\* C2: a 'completed' or 'error' Job carries a result or an error marker,
\* never both.
C2_ResultXorError ==
  \A k \in Idx :
     batchItems[k].status \in {"completed", "error"} =>
       ((batchItems[k].result # NoResult) # (batchItems[k].error # NoError))

\* C3 (as stated): when the timer armed by a settings change fires on a
\* non-empty batch, every 'completed' or 'error' Job becomes 'pending' with
\* result null.
C3_RearmAllFinished_orig ==
  [][(FireStep /\ settings # InitSettings /\ Len(batchItems) > 0) =>
       /\ Len(batchItems') = Len(batchItems)
       /\ \A k \in Idx :
            batchItems[k].status \in {"completed", "error"} =>
              /\ batchItems'[k].status = "pending"
              /\ batchItems'[k].result = NoResult]_vars

\* C3 (amended): when the timer fires and the batch was non-empty in the
\* render that armed it, every 'completed' or 'error' Job becomes 'pending'
\* with result null, the scheduler is due to run again, and a timer armed
\* over an empty batch changes no Job.
C3_RearmAllFinished ==
  [][FireStep =>
       IF timer.nonEmpty
       THEN /\ Len(batchItems') = Len(batchItems)
            /\ itemsDirty'
            /\ \A k \in Idx :
                 batchItems[k].status \in {"completed", "error"} =>
                   /\ batchItems'[k].status = "pending"
                   /\ batchItems'[k].result = NoResult
                   /\ batchItems'[k].id = batchItems[k].id
       ELSE batchItems' = batchItems]_vars

\* C3 witness: a Job that had failed has just been re-armed by the timer.
C3_Witness ==
  /\ timer = NoTimer /\ itemsDirty /\ settings # InitSettings
  /\ \E k \in Idx :
       /\ batchItems[k].status = "pending"
       /\ batchItems[k].error = "Failed"
       /\ batchItems[k].result = NoResult

C5_AllReprocessed ==
  Quiescent =>
    \A k \in Idx :
       batchItems[k].status = "completed" =>
         batchItems[k].result.file.under = settings

\* C6: the re-arm effect replaces the pending timer by a fresh 600 ms one at
\* every change of the signature; the callback runs only after a full quiet
\* window, and after it has run no timer is pending until the next change.
C6_Debounce ==
  /\ [][FireStep => (sinceChange >= DebounceMs /\ ~sigDirty)]_vars
  /\ [][(sigDirty /\ ~sigDirty') =>
          (timer'.left = DebounceMs /\ sinceChange' = 0)]_vars
  /\ [][(timer = NoTimer /\ timer' # NoTimer) => sigDirty]_vars

\* C6 witness: a burst of changes each cancelled the timer of the one
\* before, and the last timer is now due after a full quiet window.
C6_Witness ==
  /\ timer # NoTimer /\ timer.left = 0 /\ timer.restarts >= 2
  /\ timer.nonEmpty /\ sinceChange >= DebounceMs

\* C7: a failing execution sets exactly its own Job to 'error' with the
\* marker and changes no other Job; every other Job that is waiting or
\* running still reaches 'completed' or 'error' while the batch is kept.
C7_ErrorIsolation ==
  /\ [][\A t \in tasks : FailStep(t) =>
          /\ Len(batchItems') = Len(batchItems)
          /\ itemsDirty'
          /\ \A k \in Idx :
               IF batchItems[k].id = t.id
               THEN batchItems'[k] = [batchItems[k] EXCEPT
                                        !.status = "error", !.error = "Failed"]
               ELSE batchItems'[k] = batchItems[k]]_vars
  /\ \A j \in 1..MaxIds :
       ((\E i \in 1..MaxIds : i # j /\ StatusOf(i) = "error")
          /\ StatusOf(j) \in {"pending", "processing"})
       ~> (StatusOf(j) \in {"completed", "error"})

\* C7 witness: one Job of a batch of two has failed and the other one has
\* completed after it.
C7_Witness ==
  /\ Len(batchItems) = 2
  /\ batchItems[1].status = "error" /\ batchItems[1].error = "Failed"
  /\ batchItems[2].status = "completed" /\ batchItems[2].error = NoError
  /\ batchItems[2].result # NoResult

\* C8: every object URL is released at most once, and one that is not
\* released is still held by a Job of the collection.
C8_HandlesReleased ==
  \A u \in 1..Len(handles) :
     /\ handles[u] <= 1
     /\ handles[u] = 0 =>
          \E k \in Idx : /\ batchItems[k].result # NoResult
                         /\ batchItems[k].result.previewUrl = u

\* C9: a task is created with the settings current at the effect run that
\* marks its Job 'processing', and the execution reads exactly those.
C9_SettingsSnapshot ==
  /\ [][\A t \in tasks' \ tasks :
          t.phase = "delay" =>
            /\ t.closure = settings
            /\ StatusOf(t.id) = "pending"
            /\ StatusOf(t.id)' = "processing"]_vars
  /\ [](\A t \in tasks : t.phase = "running" => t.used = t.closure)
  /\ [][\A t \in tasks : (EndStep(t) /\ handles' # handles) =>
          \A k \in Idx : batchItems[k].id = t.id =>
             batchItems'[k].result.file.under = t.closure]_vars

\* C9 witness: an execution is running with the settings of its start while
\* the current settings are different.
C9_Witness ==
  \E t \in tasks :
     t.phase = "running" /\ t.used = t.closure /\ t.used # settings

\* C10: a 'pending' Job has no result.
C10_PendingNoResult ==
  \A k \in Idx :
     batchItems[k].status = "pending" => batchItems[k].result = NoResult

\* C10 witness: the only Job ever taken in had completed, and the re-arm
\* released its handle and made it 'pending' again.
C10_Witness ==
  /\ nextId = 2 /\ Len(batchItems) = 1 /\ Len(handles) = 1
  /\ handles[1] = 1
  /\ batchItems[1].status = "pending"
  /\ batchItems[1].result = NoResult

\* C20: a step moves at most one Job from 'pending' to 'processing', and the
\* Job it moves is the first 'pending' one in collection order.
C20_FirstPendingOnly ==
  [][LET moved == {k \in Idx :
                     /\ k <= Len(batchItems')
                     /\ batchItems[k].status = "pending"
                     /\ batchItems'[k].status = "processing"}
     IN  /\ Cardinality(moved) <= 1
         /\ \A k \in moved :
              /\ batchItems'[k].id = batchItems[k].id
              /\ \A j \in 1..(k - 1) : batchItems[j].status # "pending"
              /\ \E t \in tasks' \ tasks : t.id = batchItems[k].id]_vars

\* C20 witness: a scheduler run has moved the first of two pending Jobs and
\* left the second one 'pending'.
C20_Witness ==
  /\ Len(batchItems) = 2 /\ itemsDirty
  /\ batchItems[1].status = "processing"
  /\ batchItems[2].status = "pending"
  /\ Cardinality(tasks) = 1

\* C13: for tool 'rotate' the output surface is h x w when rotateAngle is 90
\* or 270 and w x h when it is 0 or 180, whatever the flip flags are.
C13_RotateSwaps ==
  (Drawn /\ px.gs.tool = "rotate") =>
    IF px.gs.rotateAngle \in {90, 270}
    THEN px.out.width = px.h /\ px.out.height = px.w
    ELSE px.out.width = px.w /\ px.out.height = px.h

C13_Witness ==
  /\ Drawn /\ px.gs.tool = "rotate" /\ px.gs.rotateAngle = 270
  /\ px.gs.flipHorizontal /\ ~px.gs.flipVertical
  /\ px.w = 3 /\ px.h = 5
  /\ px.out.width = 5 /\ px.out.height = 3

\* the crop rectangle of a drawn 'crop' job, and the ratio rw:rh it was asked for
C14_Rw == targetRatio(px.gs.cropRatio)[1]
C14_Rh == targetRatio(px.gs.cropRatio)[2]
C14_Cropped == Drawn /\ px.out.branch = "crop"

\* the crop rectangle is centred on both axes and lies inside the source
C14_CentredInside ==
  LET r == px.out.crop
  IN  /\ r.x >= 0 /\ r.y >= 0
      /\ 2 * r.x + r.cropWidth = px.w * r.den
      /\ 2 * r.y + r.cropHeight = px.h * r.den

\* the side the code shortens: width to h*rw/rh when w/h > rw/rh, otherwise
\* height to w*rh/rw; the other side is the source's
C14_Sides ==
  LET r == px.out.crop
  IN  IF px.w * C14_Rh > C14_Rw * px.h
      THEN /\ r.cropWidth * C14_Rh = r.den * px.h * C14_Rw
           /\ r.cropHeight = r.den * px.h
      ELSE /\ r.cropHeight * C14_Rw = r.den * px.w * C14_Rh
           /\ r.cropWidth = r.den * px.w

C14_Example ==
  (px.w = 1000 /\ px.h = 500 /\ px.gs.cropRatio = <<"1", ":", "1">>) =>
    /\ px.out.width = 500 /\ px.out.height = 500
    /\ px.out.crop.x = 250 * px.out.crop.den /\ px.out.crop.y = 0

\* C14 as stated: exactly one axis is shortened, the rectangle is centred and
\* inside the source, and the output surface has the crop rectangle's size.
C14_CentreCrop_orig ==
  C14_Cropped =>
    LET r == px.out.crop
    IN  /\ C14_Sides
        /\ (r.cropWidth < r.den * px.w) # (r.cropHeight < r.den * px.h)
        /\ C14_CentredInside
        /\ px.out.width * r.den = r.cropWidth
        /\ px.out.height * r.den = r.cropHeight
        /\ C14_Example

\* C14 (amended): at most one axis is shortened (none when the source already
\* has the ratio), width to h*rw/rh when w/h > rw/rh and otherwise height to
\* w*rh/rw; the rectangle is centred and inside the source; the output surface
\* is the rectangle's size with each side cut down to whole pixels; 1:1 on
\* 1000x500 gives 500x500 at offset (250, 0).
C14_CentreCrop ==
  C14_Cropped =>
    LET r == px.out.crop
    IN  /\ C14_Sides
        /\ ~(r.cropWidth < r.den * px.w /\ r.cropHeight < r.den * px.h)
        /\ C14_CentredInside
        /\ px.out.width = r.cropWidth \div r.den
        /\ px.out.height = r.cropHeight \div r.den
        /\ C14_Example

\* 16:9 on a 3x5 source: the rectangle is 3 x 1.6875, the surface 3 x 1
C14_Witness ==
  /\ C14_Cropped /\ px.w = 3 /\ px.h = 5
  /\ px.gs.cropRatio = <<"1", "6", ":", "9">>
  /\ px.out.crop.cropHeight * 16 = px.out.crop.den * 27
  /\ px.out.width = 3 /\ px.out.height = 1

\* every completed Job was produced from a surface of
\* round(w*pct/100) x round(h*pct/100)
C15_Surfaces ==
  \A k \in 1..Len(batchItems) :
    batchItems[k].status = "completed" =>
      LET f == batchItems[k].result.file
          pct == f.under.resizePercentage
          sf == SurfaceOf(f.src, f.under)
      IN  /\ f.under.tool = "resize" /\ f.under.resizeMode = "percentage"
          /\ 200 * sf.width <= 2 * px.dims[f.src][1] * pct + 100
          /\ 200 * sf.width > 2 * px.dims[f.src][1] * pct - 100
          /\ 200 * sf.height <= 2 * px.dims[f.src][2] * pct + 100
          /\ 200 * sf.height > 2 * px.dims[f.src][2] * pct - 100

C15_AllCompleted ==
  /\ Len(batchItems) = E2EFiles
  /\ \A k \in 1..E2EFiles : batchItems[k].status = "completed"

\* C15: in percentage mode the output surface is round(w*pct/100) x
\* round(h*pct/100) for every source size and percentage; the intake of 3
\* decodable files at 50 percent ends with all 3 Jobs 'completed'.
C15_ResizePercentage ==
  /\ []C15_Surfaces
  /\ (settings.resizePercentage = 50) => <>[]C15_AllCompleted

\* C16: the width and height recorded in a completed Job's Result are those of
\* the output surface the geometry step produced for that Job.
C16_ResultDimensions ==
  \A k \in 1..Len(batchItems) :
    batchItems[k].status = "completed" =>
      LET r == batchItems[k].result
          sf == SurfaceOf(r.file.src, r.file.under)
      IN  r.width = sf.width /\ r.height = sf.height

\* the qualities probed so far whose blob fits the target
C11_Fitting ==
  {k \in 1..Len(px.probes) :
     EncodedSize(px.enc, px.probes[k]) <= px.targetBytes}

\* C11: with an encoder whose size is non-decreasing in the quality and a
\* target some quality in [0.1, 1.0] meets, the blob the size-target search
\* returns is at most maxSizeKB*1024 bytes.
C11_ReachableTargetMet ==
  (/\ Searched /\ px.pc = "done"
   /\ px.enc.kind = "linear"
   /\ \E q \in MinQ0..MaxQ0 : EncodedSize(px.enc, q) <= px.targetBytes)
  => px.outputBlob.size <= px.targetBytes

\* C12: when the encoder yields a blob for every quality the search returns a
\* blob and processImage does not throw: the fitting candidate of the highest
\* probed quality, or the quality-0.5 encode when no probed quality fits.
C12_BestEffort ==
  (Searched /\ px.enc.kind # "none") =>
    /\ px.pc = "done"
    /\ px.outputBlob # NoBlob
    /\ IF C11_Fitting = {}
       THEN px.outputBlob = toBlob(px.enc, QFixed, px.format)
       ELSE /\ px.outputBlob.size <= px.targetBytes
            /\ \E k \in C11_Fitting :
                 /\ px.outputBlob = toBlob(px.enc, px.probes[k], px.format)
                 /\ \A j \in C11_Fitting : px.probes[j] <= px.probes[k]

\* no probed quality fits and the blob returned is larger than the target
C12_Witness ==
  /\ Searched /\ px.pc = "done" /\ px.enc.kind # "none"
  /\ Len(px.probes) = 5 /\ C11_Fitting = {}
  /\ px.outputBlob.q = QFixed
  /\ px.outputBlob.size > px.targetBytes

\* the base name of the claim: the name up to its last dot, the whole name
\* when it has no dot
C17_BaseName ==
  IF \E k \in 1..Len(px.name) : px.name[k] = "."
  THEN SubSeq(px.name, 1,
              CHOOSE k \in 0..Len(px.name) :
                /\ px.name[k + 1] = "."
                /\ \A j \in (k + 2)..Len(px.name) : px.name[j] # ".")
  ELSE px.name

\* C17: the output file name is the source's base name without its extension,
\* then the tool's suffix, a dot and the extension of the output mime; a
\* source name without a dot is its own base name.
C17_OutputName ==
  (px.kind = "name" /\ px.phase = "named") =>
    px.out = C17_BaseName \o
             << CASE px.tool = "compress" -> "_min"
                  [] px.tool = "convert" -> "_new"
                  [] px.tool = "md5" -> "_safe"
                  [] px.tool = "resize" -> "_resized"
                  [] px.tool = "crop" -> "_cropped"
                  [] px.tool = "rotate" -> "_rotated",
                ".",
                CASE px.type = "image/jpeg" -> "jpg"
                  [] px.type = "image/png" -> "png"
                  [] px.type = "image/webp" -> "webp" >>

\* C18: the perturbation is applied exactly when tool is 'md5'; it changes only
\* the first channel of the pixel at (0,0), by +1 below 255 and by -1 at 255,
\* so the value moves by 1 and stays in 0..255; nothing else changes.
C18_Perturbation ==
  (px.kind = "pixel" /\ px.runs > 0) =>
    LET old == px.drawn.at[<<0, 0>>][1]
        new == px.img.at[<<0, 0>>][1]
    IN  IF px.gs.tool = "md5"
        THEN /\ new = IF old < 255 THEN old + 1 ELSE old - 1
             /\ new \in 0..255
             /\ (new - old) \in {-1, 1}
             /\ \A c \in 2..4 : px.img.at[<<0, 0>>][c] = px.drawn.at[<<0, 0>>][c]
             /\ \A p \in Positions(px.img.w, px.img.h) \ {<<0, 0>>} :
                  px.img.at[p] = px.drawn.at[p]
             /\ px.img.w = px.drawn.w /\ px.img.h = px.drawn.h
        ELSE px.img = px.drawn

\* the first channel of (0,0) was 255 and is now 254
C18_Witness ==
  /\ px.kind = "pixel" /\ px.runs = 1 /\ px.gs.tool = "md5"
  /\ px.img.w = 2 /\ px.img.h = 2
  /\ px.drawn.at[<<0, 0>>][1] = 255
  /\ px.img.at[<<0, 0>>][1] = 254

C19_FlipOnly ==
  /\ px.kind = "pixel" /\ px.gs.tool = "rotate" /\ px.gs.rotateAngle = 0
  /\ px.gs.flipHorizontal /\ ~px.gs.flipVertical

\* C19: the rotate tool with flipHorizontal only, applied to an image and then
\* to the result, places every pixel where applying it without a flip does.
C19_FlipInvolution ==
  (C19_FlipOnly /\ px.runs = 2) =>
    px.img = DrawnCanvas(px.orig, [px.gs EXCEPT !.flipHorizontal = FALSE])

\* one flip of a 3x2 image puts its last column first; the second run has put
\* every pixel back
C19_Witness ==
  /\ C19_FlipOnly /\ px.runs = 2
  /\ px.orig.w = 3 /\ px.orig.h = 2
  /\ DrawnCanvas(px.orig, px.gs).at[<<0, 0>>] = px.orig.at[<<2, 0>>]
  /\ px.img.at[<<0, 0>>] = px.orig.at[<<0, 0>>]
  /\ px.img.at[<<2, 1>>] = px.orig.at[<<2, 1>>]

\* Job k of the next collection carries a result or an error that the Job of
\* the same id did not carry before the step
C21_Written(k) ==
  LET new == batchItems'[k]
      same == {j \in Idx : batchItems[j].id = new.id}
  IN  \/ /\ new.result # NoResult
         /\ \A j \in same : batchItems[j].result # new.result
      \/ /\ new.error # NoError
         /\ \A j \in same : batchItems[j].error # new.error

\* C21: a result or an error is written to a Job only by the step that ends the
\* execution started for that Job, and that step changes no other Job; a
\* completion whose Job has left the collection changes no Job at all.
C21_OwnWrites ==
  [][/\ \A k \in 1..Len(batchItems') :
          C21_Written(k) =>
            \E t \in tasks : EndStep(t) /\ t.id = batchItems'[k].id
     /\ \A t \in tasks :
          EndStep(t) =>
            /\ Len(batchItems') = Len(batchItems)
            /\ \A k \in Idx :
                 batchItems[k].id # t.id => batchItems'[k] = batchItems[k]]_vars

\* the first batch's execution succeeded after a reset and a second intake:
\* its URL is held by no Job and the Job of the new batch has no result
C21_Witness ==
  /\ Len(handles) = 1 /\ handles[1] = 0
  /\ Len(batchItems) = 1 /\ batchItems[1].id = 2
  /\ batchItems[1].result = NoResult /\ batchItems[1].error = NoError
  /\ \A t \in tasks : t.id # 1

C22_AllFinished == \A k \in Idx : IsFinished(batchItems[k])

\* C22: while the batch is kept and every execution ends, a Job that is
\* 'pending' or 'processing' reaches 'completed' or 'error'; and unless the
\* settings keep changing for ever, from some point on the batch holds only
\* 'completed' and 'error' Jobs.
C22_Progress ==
  /\ \A j \in 1..MaxIds :
       (StatusOf(j) \in {"pending", "processing"})
         ~> (StatusOf(j) \in {"completed", "error"})
  /\ ([]<><<settings' # settings>>_vars) \/ <>[]C22_AllFinished

\* both Jobs went through a re-arm under changed settings and are finished
C22_Witness ==
  /\ Len(batchItems) = 2 /\ C22_AllFinished /\ Quiescent
  /\ settings # InitSettings
  /\ \E k \in Idx : batchItems[k].status = "error"

\* C23: with a size that is non-decreasing in the quality, when the search
\* returns a fitting blob encoded at quality q, no quality of [0.1, 1.0] that
\* is q + 0.05 or more fits, and q is the largest fitting probed quality.
C23_NearHighest ==
  (/\ Searched /\ px.pc = "done" /\ px.enc.kind = "linear"
   /\ px.outputBlob.size <= px.targetBytes)
  => /\ \A q \in MinQ0..MaxQ0 :
          q >= px.outputBlob.q + QUnit \div 20 =>
            EncodedSize(px.enc, q) > px.targetBytes
     /\ \E k \in C11_Fitting : px.probes[k] = px.outputBlob.q
     /\ \A k \in C11_Fitting : px.probes[k] <= px.outputBlob.q

\* size 50000 + 100000 q against 102400 bytes: 0.55 fails, the four later
\* probes fit, and 0.521875 is returned (the highest fitting quality is 0.524)
C23_Witness ==
  /\ Searched /\ px.pc = "done" /\ px.enc.kind = "linear"
  /\ px.probes = <<880, 520, 700, 790, 835>>
  /\ px.outputBlob.q = 835
  /\ px.outputBlob.size <= px.targetBytes
  /\ px.maxQ = 880

\* C24: the quality search ends: the loop is left through the gap test, after
\* at most 5 encoder calls whatever the blob sizes are, never through the cap
\* of 10 iterations; with the fallback at most 6 encoder calls are made.
C24_SearchBounded ==
  (px.kind = "search" /\ px.tool = "compress" /\ px.format # "image/png") =>
    /\ Len(px.probes) <= 5
    /\ Len(px.encoded) <= 6
    /\ px.iter < MaxIter
    /\ px.exit # "cap"
    /\ px.pc = "loop" => (Len(px.probes) <= 4 /\ px.iter = Len(px.probes))
    /\ (px.pc \in {"fallback", "check", "done", "thrown"}
          /\ px.enc.kind # "none") =>
         (px.exit = "gap" /\ px.maxQ - px.minQ < QUnit \div 20)

\* five probes that all miss the target, then the quality-0.5 encode
C24_Witness ==
  /\ Searched /\ px.pc = "done" /\ px.exit = "gap"
  /\ px.encoded = <<880, 520, 340, 250, 205, 800>>
  /\ px.iter = 4

C25_PngExport ==
  /\ px.kind = "search" /\ px.tool = "compress" /\ px.format = "image/png"
  /\ px.pc # "export"

\* C25: for 'compress' with image/png the search is skipped: one encode call
\* is made, at quality 1, and its blob is returned whatever its size.
C25_PngSkipsSearch ==
  C25_PngExport =>
    /\ px.pc \in {"check", "done", "thrown"}
    /\ px.encoded = <<QUnit>>
    /\ px.probes = <<>> /\ px.iter = 0 /\ px.exit = "none"
    /\ px.enc.kind # "none" =>
         /\ px.pc # "thrown"
         /\ px.outputBlob =
              [size |-> EncodedSize(px.enc, QUnit), q |-> QUnit,
               type |-> "image/png"]

\* the one png encode is larger than the target and is returned all the same
C25_Witness ==
  /\ C25_PngExport /\ px.pc = "done"
  /\ px.outputBlob.q = QUnit
  /\ px.outputBlob.size > px.targetBytes

\* C26: for 'compress' with maxWidthOrHeight = M > 0 and a source wider or
\* higher than M, the larger output side is M (the width when w/h > 1,
\* otherwise the height), the other follows the source ratio, cut to whole
\* pixels, and neither exceeds M; in every other case, and for convert and md5
\* whatever M is, the surface has the source size.
C26_Downscale ==
  (Drawn /\ px.gs.tool \in {"compress", "convert", "md5"}) =>
    LET M == px.gs.maxWidthOrHeight
        W == px.out.width
        H == px.out.height
    IN  IF px.gs.tool = "compress" /\ M > 0 /\ (px.w > M \/ px.h > M)
        THEN /\ IF px.w > px.h
                THEN W = M /\ H * px.w <= M * px.h /\ M * px.h < (H + 1) * px.w
                ELSE H = M /\ W * px.h <= M * px.w /\ M * px.w < (W + 1) * px.h
             /\ W <= M /\ H <= M
             /\ Max(W, H) = M
        ELSE W = px.w /\ H = px.h

\* 1000x500 under a limit of 800 becomes 800x400
C26_Witness ==
  /\ Drawn /\ px.gs.tool = "compress" /\ px.gs.maxWidthOrHeight = 800
  /\ px.w = 1000 /\ px.h = 500
  /\ px.out.width = 800 /\ px.out.height = 400

\* C27: in dimensions mode with maintainAspectRatio, resizeWidth > 0 fixes the
\* width and the height follows the source ratio (to the nearest pixel) even
\* when resizeHeight > 0 as well; resizeHeight counts only when resizeWidth is
\* not > 0; with neither the surface is the source size.  Without
\* maintainAspectRatio each field that is > 0 replaces its own axis only.
C27_DimensionsMode ==
  (Drawn /\ px.gs.tool = "resize" /\ px.gs.resizeMode = "dimensions") =>
    LET RW == px.gs.resizeWidth
        RH == px.gs.resizeHeight
        W == px.out.width
        H == px.out.height
    IN  IF px.gs.maintainAspectRatio
        THEN IF RW > 0
             THEN /\ W = RW
                  /\ 2 * H * px.w <= 2 * RW * px.h + px.w
                  /\ 2 * H * px.w > 2 * RW * px.h - px.w
             ELSE IF RH > 0
             THEN /\ H = RH
                  /\ 2 * W * px.h <= 2 * RH * px.w + px.h
                  /\ 2 * W * px.h > 2 * RH * px.w - px.h
             ELSE W = px.w /\ H = px.h
        ELSE /\ W = IF RW > 0 THEN RW ELSE px.w
             /\ H = IF RH > 0 THEN RH ELSE px.h

\* both fields set on a 2x4 source: the width 3 wins and the height is 6, not 1
C27_Witness ==
  /\ Drawn /\ px.gs.tool = "resize" /\ px.gs.resizeMode = "dimensions"
  /\ px.gs.maintainAspectRatio
  /\ px.gs.resizeWidth = 3 /\ px.gs.resizeHeight = 1
  /\ px.w = 2 /\ px.h = 4
  /\ px.out.width = 3 /\ px.out.height = 6

\* C28: for every tool the destination surface is filled with white before the
\* source image is drawn on it; the fill is never skipped.
C28_FillBeforeDraw ==
  Drawn =>
    \A j \in 1..Len(px.out.ops) :
       px.out.ops[j] = "drawImage" =>
         \E i \in 1..(j - 1) : px.out.ops[i] = "fillRect"

\* C29: reset empties the collection and sets the state to IDLE whatever the
\* Jobs' statuses are; selecting a tool sets settings.tool and resets as well;
\* the collection then stays empty until the next intake.
C29_Reset ==
  /\ [][(Len(batchItems) > 0 /\ Len(batchItems') = 0) =>
          appState' = "IDLE"]_vars
  /\ [][(activeTool' # activeTool \/ settings'.tool # settings.tool) =>
          /\ settings'.tool = activeTool'
          /\ batchItems' = <<>>
          /\ appState' = "IDLE"]_vars
  /\ [][(Len(batchItems) = 0 /\ Len(batchItems') > 0) =>
          (nextId' > nextId /\ \A k \in 1..Len(batchItems') :
                                 batchItems'[k].id >= nextId)]_vars
  /\ []((~Dirty /\ Len(batchItems) > 0) => ENABLED handleReset)
  /\ [](~Dirty => \A tool \in Tools : ENABLED handleToolChange(tool))

\* a tool was selected while the Job was 'processing': the collection is
\* empty and the state IDLE while the Job's task is still running
C29_Witness ==
  /\ batchItems = <<>> /\ appState = "IDLE"
  /\ activeTool = "md5" /\ settings.tool = "md5"
  /\ nextId = 2
  /\ \E t \in tasks : t.id = 1 /\ t.phase = "running"

\* the limits the maxWidthOrHeight select offers
C30_PanelLimits == {0, 800, 1280, 1920, 2048}

\* C30: for every source of at least 1x1 and every settings value the panel
\* can produce, the output surface is at least 1 pixel wide and 1 pixel high.
C30_SurfaceNotEmpty ==
  (Drawn /\ px.w >= 1 /\ px.h >= 1
     /\ px.gs.maxWidthOrHeight \in C30_PanelLimits
     /\ px.gs.resizePercentage \in 1..200
     /\ px.gs.resizeWidth >= 0 /\ px.gs.resizeHeight >= 0
     /\ px.gs.cropRatio \in CropRatios)
  => (px.out.width >= 1 /\ px.out.height >= 1)

====
